---- MODULE Spec2Model ----
(***************************************************************************)
(* Folder Tree Generator: the directory walker generate_tree / walk_dir,   *)
(* the renderers tree_to_json and tree_to_html, and the preview handlers   *)
(* update_preview / generate_tree_thread of FolderTreeGeneratorApp.        *)
(*                                                                         *)
(* A string is a sequence of one-character tokens.  The box-drawing        *)
(* characters of the Classic symbol set are written BOX_V, BOX_UR, BOX_VR  *)
(* and BOX_H.  A file name is a string; a path is a sequence of names      *)
(* below folder_path.                                                      *)
(***************************************************************************)
EXTENDS Integers, Sequences, FiniteSets, TLC

\* ------------------------------------------------------------------ bounds
\* canonical directories of the filesystem (the root directory is 0)
MaxDirs == 3
\* directory entries of the whole filesystem
MaxNodes == 3
\* directory entries of the whole filesystem that is walked twice
MaxNodesTwice == 4
\* entries of one directory
MaxList == 3
\* largest max_depth given to generate_tree
MaxDepthArg == 2
\* background walk threads of one behaviour
MaxThreads == 2
\* user events (folder selections, key releases) of one behaviour
MaxEvents == 3

\* -------------------------------------------------------------- characters
BOX_V == "BOX_V"
BOX_UR == "BOX_UR"
BOX_VR == "BOX_VR"
BOX_H == "BOX_H"
BACKTICK == "BACKTICK"
NL == "\n"

UPPER == <<"A","B","C","D","E","F","G","H","I","J","K","L","M",
           "N","O","P","Q","R","S","T","U","V","W","X","Y","Z">>
LOWER == <<"a","b","c","d","e","f","g","h","i","j","k","l","m",
           "n","o","p","q","r","s","t","u","v","w","x","y","z">>
\* the printable ASCII characters, code points 32..126
ASCII == <<" ","!","\"","#","$","%","&","'","(",")","*","+",",","-",".","/",
           "0","1","2","3","4","5","6","7","8","9",":",";","<","=",">","?",
           "@">> \o UPPER \o <<"[","\\","]","^","_","BACKTICK">> \o LOWER
           \o <<"{","|","}","~">>

\* code point of a character
Ord(c) ==
    IF \E i \in 1..Len(ASCII) : ASCII[i] = c
    THEN 31 + (CHOOSE i \in 1..Len(ASCII) : ASCII[i] = c)
    ELSE CASE c = NL -> 10
           [] c = BOX_H -> 9472
           [] c = BOX_V -> 9474
           [] c = BOX_UR -> 9492
           [] c = BOX_VR -> 9500
           [] OTHER -> 65533

\* str.lower() on one character
LowerChar(c) ==
    IF \E i \in 1..26 : UPPER[i] = c
    THEN LOWER[CHOOSE i \in 1..26 : UPPER[i] = c]
    ELSE c

\* s.lower()
Lower(s) == [i \in 1..Len(s) |-> LowerChar(s[i])]

\* a < b on strings: lexicographic on code points
RECURSIVE StrLess(_, _)
StrLess(a, b) ==
    IF b = <<>> THEN FALSE
    ELSE IF a = <<>> THEN TRUE
    ELSE IF Ord(Head(a)) # Ord(Head(b)) THEN Ord(Head(a)) < Ord(Head(b))
    ELSE StrLess(Tail(a), Tail(b))

\* s.startswith(p)
StartsWith(s, p) == Len(s) >= Len(p) /\ SubSeq(s, 1, Len(p)) = p

\* sep.join(strs)
RECURSIVE Join(_, _)
Join(sep, strs) ==
    IF strs = <<>> THEN <<>>
    ELSE IF Len(strs) = 1 THEN strs[1]
    ELSE strs[1] \o sep \o Join(sep, Tail(strs))

\* ----------------------------------------------------------- configuration
TREE_SYMBOLS ==
    [Classic |-> [branch |-> <<BOX_VR, BOX_H, BOX_H, " ">>,
                  last   |-> <<BOX_UR, BOX_H, BOX_H, " ">>,
                  indent |-> <<BOX_V, " ", " ", " ">>],
     Simple  |-> [branch |-> <<"|", "-", "-", " ">>,
                  last   |-> <<"\\", "-", "-", " ">>,
                  indent |-> <<"|", " ", " ", " ">>],
     ASCII   |-> [branch |-> <<"+", "-", "-", " ">>,
                  last   |-> <<"+", "-", "-", " ">>,
                  indent |-> <<" ", " ", " ", " ">>]]

SymbolNames == {"Classic", "Simple", "ASCII"}

\* max_depth = None
None == -1

\* ------------------------------------------------------------- filesystem
\* names a directory may hold
n_a == <<"a">>
n_B == <<"B">>
n_env == <<".", "e">>
n_nm == <<"n", "m">>
Names == {n_a, n_B, n_env, n_nm}

\* the root folder given to generate_tree
ROOT_PATH == <<"/", "r">>

\* an order in which the operating system may hand out the names
DiskOrder == <<n_nm, n_B, n_env, n_a>>

Reverse(s) == [i \in 1..Len(s) |-> s[Len(s) + 1 - i]]

Restrict(s, S) == LET T(n) == n \in S IN SelectSeq(s, T)

Dirs == 0..(MaxDirs - 1)

\* the directory contents the filesystem may hold, at most k entries
ContentChoices(k) ==
    LET m == IF k < MaxList THEN k ELSE MaxList
    IN  {[st |-> "denied", names |-> {}], [st |-> "error", names |-> {}]}
        \cup {[st |-> "ok", names |-> S] : S \in {T \in SUBSET Names : Cardinality(T) <= m}}

\* the orders in which os.listdir may return the names S
ListdirOrders(S) == {Restrict(DiskOrder, S), Reverse(Restrict(DiskOrder, S))}

Unknown == [st |-> "unknown", names |-> {}]

\* kinds of directory entry: a plain file, a directory (with the canonical
\* directory it is), a symlink (readable or not, to a directory or not)
UnknownKind == [t |-> "unknown", id |-> -1, readable |-> FALSE]
FileKind == [t |-> "file", id |-> -1, readable |-> FALSE]
DirKind(d) == [t |-> "dir", id |-> d, readable |-> FALSE]
LinkKind(d, r) == [t |-> "link", id |-> d, readable |-> r]

\* the kinds an entry can turn out to have, n canonical directories known
KindChoices(n) ==
    {FileKind, LinkKind(0, TRUE), LinkKind(-1, TRUE), LinkKind(-1, FALSE)}
    \cup {DirKind(d) : d \in 0..(n - 1)}
    \cup (IF n < MaxDirs THEN {DirKind(n)} ELSE {})

\* os.path.islink, os.path.isdir, os.path.isfile (the last two follow links)
islink(k) == k.t = "link"
isdir(k) == k.t = "dir" \/ (k.t = "link" /\ k.id >= 0)
isfile(k) == k.t = "file" \/ (k.t = "link" /\ k.id < 0 /\ k.readable)

\* os.readlink(item_path): the text of the link
readlink(k) == IF k.id >= 0 THEN ROOT_PATH ELSE <<"f">>

\* os.path.realpath(item_path) of a directory: its canonical directory
realpath(k) == k.id

\* ----------------------------------------------------------------- state
VARIABLES
    listing,     \* filesystem: canonical directory -> result of os.listdir
    kinds,       \* filesystem: <<canonical directory, name>> -> kind
    ndirs,       \* filesystem: canonical directories known so far
    cfg,         \* arguments of the running generate_tree call
    tree_lines,  \* generate_tree: tree_lines
    visited,     \* generate_tree: visited
    stack,       \* call stack of walk_dir
    phase,       \* "idle", "walking", "done"
    result,      \* return value of generate_tree
    meta,        \* history: for each line of tree_lines, what it was emitted for
    listed,      \* history: the successful os.listdir calls of this walk
    prev,        \* history: tree_lines and meta of the previous generate_tree call
    json,        \* return value of tree_to_json
    html         \* return value of tree_to_html

wvars == <<listing, kinds, ndirs, cfg, tree_lines, visited, stack, phase,
           result, meta, listed, prev, json, html>>

VARIABLES
    folder_path_var,  \* FolderTreeGeneratorApp.folder_path_var
    depth_spinbox,    \* text of FolderTreeGeneratorApp.depth_spinbox
    preview_text,     \* FolderTreeGeneratorApp.preview_text: state and content
    progress_bar,     \* FolderTreeGeneratorApp.progress_bar: packed, running
    threads,          \* the generate_tree_thread threads started so far
    messages,         \* messagebox.showerror calls so far
    last_call,        \* history: what the last update_preview call did
    last_insert,      \* history: the thread of the last preview_text.insert call
    events            \* user events so far

gvars == <<folder_path_var, depth_spinbox, preview_text, progress_bar, threads,
           messages, last_call, last_insert, events>>

vars == <<wvars, gvars>>

\* ------------------------------------------------- generate_tree / walk_dir
\* literal texts of walk_dir
DOTS == <<".", ".", ".">>
PERMISSION_DENIED == <<"[","P","e","r","m","i","s","s","i","o","n"," ",
                       "D","e","n","i","e","d","]">>
CIRCULAR_LINK == <<"[","C","i","r","c","u","l","a","r"," ","L","i","n","k","]">>
INVALID_SYMLINK == <<"[","I","n","v","a","l","i","d"," ",
                     "S","y","m","l","i","n","k","]">>
ARROW == <<" ", "-", ">", " ">>
BLANKS == <<" ", " ", " ", " ">>
\* str(e) of the exception os.listdir raised
ErrText == <<"e", "r", "r">>
ERROR_MARKER == <<"[","E","r","r","o","r",":"," ">> \o ErrText \o <<"]">>
\* os.path.getsize and the formatted os.path.getmtime of a file
SizeText == <<"7">>
MtimeText == <<"2","0","2","4">>
METADATA == <<" ","[","S","i","z","e",":"," ">> \o SizeText
            \o <<" ","b","y","t","e","s",","," ",
                 "M","o","d","i","f","i","e","d",":"," ">> \o MtimeText \o <<"]">>

\* a sort that compares the names as they are
sort_key_raw(s) == s

\* key=lambda s: s.lower()
sort_key(s) == Lower(s)

\* sorted(items, key=...): stable, ascending
RECURSIVE InsertSorted(_, _)
InsertSorted(x, s) ==
    IF s = <<>> THEN <<x>>
    ELSE IF StrLess(sort_key(x), sort_key(Head(s))) THEN <<x>> \o s
    ELSE <<Head(s)>> \o InsertSorted(x, Tail(s))

RECURSIVE sorted(_)
sorted(s) ==
    IF s = <<>> THEN <<>>
    ELSE InsertSorted(s[Len(s)], sorted(SubSeq(s, 1, Len(s) - 1)))

\* if not include_hidden: items = [item for item in items if not item.startswith('.')]
hidden_filter(items, include_hidden) ==
    LET keep(item) == ~StartsWith(item, <<".">>)
    IN  IF ~include_hidden THEN SelectSeq(items, keep) ELSE items

\* items = [item for item in items if item not in exclusions]
exclusion_filter(items, exclusions) ==
    LET keep(item) == item \notin exclusions
    IN  SelectSeq(items, keep)

\* a depth test that is off by one
depth_reached(current_depth, max_depth) ==
    max_depth # None /\ current_depth >= max_depth

\* max_depth is not None and current_depth > max_depth
depth_exceeded(current_depth, max_depth) ==
    max_depth # None /\ current_depth > max_depth

\* connector = last if is_last else branch
connector(is_last, symbols) ==
    IF is_last THEN symbols.last ELSE symbols.branch

\* extension = indent if not is_last else "    "
extension(is_last, symbols) ==
    IF ~is_last THEN symbols.indent ELSE BLANKS

\* tree_lines.append(prefix + indent + "[Circular Link]")
circular_line(prefix, is_last, symbols) ==
    prefix \o symbols.indent \o CIRCULAR_LINK

\* display_name of a symlink
symlink_name(item, k) ==
    IF k.readable THEN item \o ARROW \o readlink(k)
    ELSE item \o ARROW \o INVALID_SYMLINK

\* display_name of any other entry
plain_name(item, k, show_metadata) ==
    IF show_metadata /\ isfile(k) THEN item \o METADATA ELSE item

\* a loop body without the continue of the symlink branch
falls_through_always(k) == TRUE

\* whether walk_dir goes on to the isdir test after the entry's line
falls_through(k) == ~islink(k)

\* a test of line 111 that always fails
never_visited(real_path, vis) == FALSE

\* real_path in visited
already_visited(real_path, vis) == real_path \in vis

\* the visited set generate_tree starts with
initial_visited == {}

\* the marker of a failed os.listdir: PermissionError, any other Exception
listdir_marker(st) ==
    IF st = "denied" THEN PERMISSION_DENIED ELSE ERROR_MARKER

\* a listing error that ends the whole walk
abort_walk(stk) == <<>>

\* the except clauses of walk_dir return: the caller's loop goes on
on_listdir_error(stk) == SubSeq(stk, 1, Len(stk) - 1)

NoPrev == [tree_lines |-> <<>>, meta |-> <<>>]
NoJson == [name |-> <<>>, parent |-> <<>>]

Frame(path, dir, prefix, depth) ==
    [current_path |-> path, dir |-> dir, prefix |-> prefix,
     current_depth |-> depth, items |-> <<>>, index |-> 0, pc |-> "enter"]

Top == stack[Len(stack)]
Pop == SubSeq(stack, 1, Len(stack) - 1)
symbols == TREE_SYMBOLS[cfg.symbols]

\* entries of the filesystem known so far
RECURSIVE SumLen(_)
SumLen(D) ==
    IF D = {} THEN 0
    ELSE LET d == CHOOSE x \in D : TRUE
         IN  Cardinality(listing[d].names) + SumLen(D \ {d})

nnodes == SumLen(Dirs)

\* history record of one output line: what it is ("root", "file", "dir",
\* "link", "dots", "denied", "error", "circular"), the directory it belongs
\* to (an entry: the directory holding it; a marker: the directory it stands
\* for), the entry's name, kind and depth, and whether the entry is last
Line(k, path, name, depth, is_last, kind) ==
    [k |-> k, path |-> path, name |-> name, depth |-> depth,
     is_last |-> is_last, kind |-> kind]

\* the arguments of a generate_tree call: the defaults of the preview with
\* node_modules excluded, and every way of changing one of them
DefaultConfig ==
    [exclusions |-> {n_nm}, include_hidden |-> FALSE, max_depth |-> None,
     show_metadata |-> FALSE, symbols |-> "Classic"]

Configs ==
    {[DefaultConfig EXCEPT !.exclusions = {}],
     [DefaultConfig EXCEPT !.include_hidden = TRUE],
     [DefaultConfig EXCEPT !.show_metadata = TRUE],
     [exclusions |-> {}, include_hidden |-> TRUE, max_depth |-> 2,
      show_metadata |-> TRUE, symbols |-> "Simple"]}
    \cup {[DefaultConfig EXCEPT !.max_depth = d] : d \in {None} \cup 1..MaxDepthArg}
    \cup {[DefaultConfig EXCEPT !.symbols = y] : y \in SymbolNames}

\* generate_tree: lines 42-55 and 118-119, up to the first walk_dir call
start_walk(c) ==
    /\ cfg' = c
    /\ tree_lines' = <<ROOT_PATH>>
    /\ meta' = <<Line("root", <<>>, <<>>, 0, FALSE, DirKind(0))>>
    /\ visited' = initial_visited
    /\ stack' = <<Frame(<<>>, 0, <<>>, 1)>>
    /\ listed' = <<>>
    /\ phase' = "walking"
    /\ UNCHANGED <<listing, kinds, ndirs, result, json, html>>
    /\ UNCHANGED gvars

\* a call of generate_tree
generate_tree(c) ==
    /\ phase = "idle"
    /\ start_walk(c)
    /\ UNCHANGED prev

\* a second call of generate_tree on the same filesystem, after an unlimited
\* one, with the same arguments but max_depth = d
generate_tree_again(d) ==
    /\ phase = "done"
    /\ prev = NoPrev
    /\ cfg.max_depth = None
    /\ prev' = [tree_lines |-> tree_lines, meta |-> meta]
    /\ start_walk([cfg EXCEPT !.max_depth = d])

\* walk_dir: lines 57-76, the depth test, os.listdir, the sort and the filters,
\* on a filesystem of at most size entries
walk_dir_enter(size) ==
    /\ phase = "walking" /\ stack # <<>> /\ Top.pc = "enter"
    /\ IF depth_exceeded(Top.current_depth, cfg.max_depth)
       THEN /\ tree_lines' = Append(tree_lines, Top.prefix \o symbols.last \o DOTS)
            /\ meta' = Append(meta, Line("dots", Top.current_path, <<>>,
                                         Top.current_depth, TRUE, DirKind(Top.dir)))
            /\ stack' = Pop
            /\ UNCHANGED <<listing, listed>>
       ELSE \E r \in (IF listing[Top.dir].st # "unknown" THEN {listing[Top.dir]}
                      ELSE ContentChoices(size - nnodes)) :
            \E names \in ListdirOrders(r.names) :
            /\ listing' = [listing EXCEPT ![Top.dir] = r]
            /\ IF r.st = "ok"
               THEN /\ stack' = [stack EXCEPT ![Len(stack)] =
                          [@ EXCEPT !.items = exclusion_filter(
                                        hidden_filter(sorted(names), cfg.include_hidden),
                                        cfg.exclusions),
                                    !.index = 1, !.pc = "loop"]]
                    /\ listed' = Append(listed, [path |-> Top.current_path,
                                                 dir |-> Top.dir, names |-> r.names])
                    /\ UNCHANGED <<tree_lines, meta>>
               ELSE /\ tree_lines' = Append(tree_lines, Top.prefix \o symbols.last
                                                      \o listdir_marker(r.st))
                    /\ meta' = Append(meta, Line(r.st, Top.current_path, <<>>,
                                                 Top.current_depth, TRUE, DirKind(Top.dir)))
                    /\ stack' = on_listdir_error(stack)
                    /\ UNCHANGED listed
    /\ UNCHANGED <<kinds, ndirs, cfg, visited, phase, result, prev, json, html>>
    /\ UNCHANGED gvars

\* walk_dir: lines 77-116, one iteration of the loop over items
walk_dir_item ==
    /\ phase = "walking" /\ stack # <<>> /\ Top.pc = "loop"
    /\ Top.index <= Len(Top.items)
    /\ LET item == Top.items[Top.index]
           item_path == Append(Top.current_path, item)
           is_last == Top.index = Len(Top.items)
           display_prefix == Top.prefix \o connector(is_last, symbols)
           next == [stack EXCEPT ![Len(stack)].index = @ + 1]
       IN  \E k \in (IF kinds[<<Top.dir, item>>].t # "unknown"
                     THEN {kinds[<<Top.dir, item>>]} ELSE KindChoices(ndirs)) :
           /\ kinds' = [kinds EXCEPT ![<<Top.dir, item>>] = k]
           /\ ndirs' = IF k.t = "dir" /\ k.id >= ndirs THEN k.id + 1 ELSE ndirs
           /\ IF ~falls_through(k)
              THEN /\ tree_lines' = Append(tree_lines, display_prefix \o symlink_name(item, k))
                   /\ meta' = Append(meta, Line("link", Top.current_path, item,
                                                Top.current_depth, is_last, k))
                   /\ stack' = next
                   /\ UNCHANGED visited
              ELSE LET entry == display_prefix \o plain_name(item, k, cfg.show_metadata)
                       m == Line(IF islink(k) THEN "link" ELSE k.t, Top.current_path,
                                 item, Top.current_depth, is_last, k)
                   IN  IF ~isdir(k)
                       THEN /\ tree_lines' = Append(tree_lines, entry)
                            /\ meta' = Append(meta, m)
                            /\ stack' = next
                            /\ UNCHANGED visited
                       ELSE IF already_visited(realpath(k), visited)
                       THEN /\ tree_lines' = tree_lines \o
                                  <<entry, circular_line(Top.prefix, is_last, symbols)>>
                            /\ meta' = meta \o <<m, Line("circular", item_path, <<>>,
                                                  Top.current_depth + 1, is_last, k)>>
                            /\ stack' = next
                            /\ UNCHANGED visited
                       ELSE /\ tree_lines' = Append(tree_lines, entry)
                            /\ meta' = Append(meta, m)
                            /\ visited' = visited \cup {realpath(k)}
                            /\ stack' = Append(next,
                                   Frame(item_path, realpath(k),
                                         Top.prefix \o extension(is_last, symbols),
                                         Top.current_depth + 1))
    /\ UNCHANGED <<listing, cfg, phase, result, listed, prev, json, html>>
    /\ UNCHANGED gvars

\* walk_dir: the loop over items is exhausted, the call returns
walk_dir_return ==
    /\ phase = "walking" /\ stack # <<>> /\ Top.pc = "loop"
    /\ Top.index > Len(Top.items)
    /\ stack' = Pop
    /\ UNCHANGED <<listing, kinds, ndirs, cfg, tree_lines, visited, phase,
                   result, meta, listed, prev, json, html>>
    /\ UNCHANGED gvars

\* generate_tree: line 120, return "\n".join(tree_lines)
generate_tree_return ==
    /\ phase = "walking" /\ stack = <<>>
    /\ result' = Join(<<NL>>, tree_lines)
    /\ phase' = "done"
    /\ UNCHANGED <<listing, kinds, ndirs, cfg, tree_lines, visited, stack,
                   meta, listed, prev, json, html>>
    /\ UNCHANGED gvars

\* -------------------------------------------- tree_to_json / tree_to_html
\* tree_str.split('\n')
split(str) ==
    LET cuts == {0, Len(str) + 1} \cup {i \in 1..Len(str) : str[i] = NL}
        next(c) == CHOOSE e \in cuts : e > c /\ \A x \in cuts : x > c => e <= x
        RECURSIVE pieces(_)
        pieces(c) == IF c = Len(str) + 1 THEN <<>>
                     ELSE <<SubSeq(str, c + 1, next(c) - 1)>> \o pieces(next(c))
    IN  pieces(0)

\* the characters of line.lstrip(' │└├──+--\\')
STRIP_CHARS == {" ", BOX_V, BOX_UR, BOX_VR, BOX_H, "+", "-", "\\"}

lstrip(line) ==
    LET kept == {i \in 1..Len(line) : line[i] \notin STRIP_CHARS}
    IN  IF kept = {} THEN <<>>
        ELSE SubSeq(line, CHOOSE i \in kept : \A x \in kept : i <= x, Len(line))

\* depth = (len(line) - len(stripped)) // 4
inferred_depth(line) == (Len(line) - Len(lstrip(line))) \div 4

\* while stack and stack[-1][1] >= depth: stack.pop()
RECURSIVE pop_to(_, _)
pop_to(stk, depth) ==
    IF stk # <<>> /\ stk[Len(stk)].depth >= depth
    THEN pop_to(SubSeq(stk, 1, Len(stk) - 1), depth)
    ELSE stk

\* the loop of tree_to_json over lines[1:]; node i is the node of line i and
\* parent[i] the node whose children list it was appended to (0: none)
RECURSIVE json_loop(_, _, _, _)
json_loop(lines, i, stk, tree) ==
    IF i > Len(lines) THEN tree
    ELSE LET depth == inferred_depth(lines[i])
             popped == pop_to(stk, depth)
             par == IF popped # <<>> THEN popped[Len(popped)].node ELSE 0
         IN  json_loop(lines, i + 1, Append(popped, [node |-> i, depth |-> depth]),
                       [name |-> Append(tree.name, lstrip(lines[i])),
                        parent |-> Append(tree.parent, par)])

tree_to_json(tree_str) ==
    LET lines == split(tree_str)
    IN  json_loop(lines, 2, <<[node |-> 1, depth |-> 0]>>,
                  [name |-> <<lines[1]>>, parent |-> <<0>>])

\* markup pieces of tree_to_html
UL == "<ul>"
END_UL == "</ul>"
LI == "<li>"
END_LI == "</li>"

\* while depth < stack[-1]: html += "</ul></li>\n"; stack.pop()
RECURSIVE html_close(_, _)
html_close(st, depth) ==
    IF depth < st.stack[Len(st.stack)]
    THEN html_close([html |-> st.html \o <<END_UL, END_LI, NL>>,
                     stack |-> SubSeq(st.stack, 1, Len(st.stack) - 1)], depth)
    ELSE st

\* if depth > stack[-1]: html += "<ul>\n"; stack.append(depth)
html_open(st, depth) ==
    IF depth > st.stack[Len(st.stack)]
    THEN [html |-> st.html \o <<UL, NL>>, stack |-> Append(st.stack, depth)]
    ELSE st

\* the loop of tree_to_html over lines
RECURSIVE html_loop(_, _, _)
html_loop(lines, i, st) ==
    IF i > Len(lines) THEN st
    ELSE LET depth == inferred_depth(lines[i])
             o == html_open(html_close(st, depth), depth)
         IN  html_loop(lines, i + 1,
                       [html |-> o.html \o <<LI>> \o lstrip(lines[i]) \o <<END_LI, NL>>,
                        stack |-> o.stack])

\* while len(stack) > 1: html += "</ul></li>\n"; stack.pop()
RECURSIVE html_finish(_)
html_finish(st) ==
    IF Len(st.stack) > 1
    THEN html_finish([html |-> st.html \o <<END_UL, END_LI, NL>>,
                      stack |-> SubSeq(st.stack, 1, Len(st.stack) - 1)])
    ELSE st

\* tree_to_html up to its last statement: the markup and the depth stack
html_run(tree_str) ==
    html_finish(html_loop(split(tree_str), 1, [html |-> <<UL, NL>>, stack |-> <<0>>]))

tree_to_html(tree_str) == html_run(tree_str).html \o <<END_UL>>

\* export of the finished tree as JSON
export_json ==
    /\ phase = "done" /\ json = NoJson
    /\ json' = tree_to_json(result)
    /\ UNCHANGED <<listing, kinds, ndirs, cfg, tree_lines, visited, stack, phase,
                   result, meta, listed, prev, html>>
    /\ UNCHANGED gvars

\* export of the finished tree as HTML
export_html ==
    /\ phase = "done" /\ html = <<>>
    /\ html' = tree_to_html(result)
    /\ UNCHANGED <<listing, kinds, ndirs, cfg, tree_lines, visited, stack, phase,
                   result, meta, listed, prev, json>>
    /\ UNCHANGED gvars

\* -------------------------------- update_preview / generate_tree_thread
\* texts the depth field may hold; SUP2 is the superscript two
SUP2 == "SUP2"
DepthTexts == {<<>>, <<"2">>, <<"1", "0">>, <<"x">>, <<"-", "1">>, <<SUP2>>}
Folders == {<<>>, ROOT_PATH}

DIGITS == <<"0", "1", "2", "3", "4", "5", "6", "7", "8", "9">>

\* str.isdigit(): not empty, and every character is a digit character
isdigit(str) ==
    /\ str # <<>>
    /\ \A i \in 1..Len(str) : str[i] = SUP2 \/ \E v \in 1..10 : DIGITS[v] = str[i]

\* int(str): the value, or ValueError for what is no decimal literal
RECURSIVE int(_)
int(str) ==
    IF str = <<>> THEN [ok |-> TRUE, value |-> 0]
    ELSE LET front == int(SubSeq(str, 1, Len(str) - 1))
             c == str[Len(str)]
         IN  IF front.ok /\ \E v \in 1..10 : DIGITS[v] = c
             THEN [ok |-> TRUE,
                   value |-> 10 * front.value + (CHOOSE v \in 1..10 : DIGITS[v] = c) - 1]
             ELSE [ok |-> FALSE, value |-> 0]

\* a guard that lets update_preview go on without a folder
never_missing(folder_selected) == FALSE

\* if not folder_selected: return
folder_missing(folder_selected) == folder_selected = <<>>

\* max_depth = int(depth) if depth.isdigit() else None
max_depth_of(depth) ==
    IF isdigit(depth) THEN int(depth) ELSE [ok |-> TRUE, value |-> None]

\* the result of the walk of one request, as one piece of text
TreeOf(id) == <<"tree", id>>

\* preview_text.delete(1.0, tk.END): no effect on a disabled widget
text_delete(w) == IF w.state = "normal" THEN [w EXCEPT !.content = <<>>] ELSE w

\* preview_text.insert(tk.END, tree_str): no effect on a disabled widget
text_insert(w, str) ==
    IF w.state = "normal" THEN [w EXCEPT !.content = Append(@, str)] ELSE w

NoCall == [called |-> FALSE, folder |-> <<>>, depth |-> <<>>, shown |-> 0,
           started |-> FALSE, max_depth |-> None]

\* update_preview: lines 350-397
update_preview ==
    LET folder_selected == folder_path_var'
        depth == depth_spinbox'
        max_depth == max_depth_of(depth)
    IN  /\ IF folder_missing(folder_selected)
           THEN UNCHANGED <<preview_text, progress_bar, threads, messages>>
           ELSE IF ~max_depth.ok
           THEN /\ messages' = messages + 1
                /\ UNCHANGED <<preview_text, progress_bar, threads>>
           ELSE /\ Len(threads) < MaxThreads
                /\ progress_bar' = [packed |-> TRUE, running |-> TRUE]
                /\ preview_text' =
                      [text_delete([preview_text EXCEPT !.state = "normal"])
                         EXCEPT !.state = "disabled"]
                /\ threads' = Append(threads, [pc |-> "generate_tree", tree_str |-> <<>>,
                                               folder |-> folder_selected,
                                               max_depth |-> max_depth.value])
                /\ UNCHANGED messages
        /\ last_call' = [called |-> TRUE, folder |-> folder_selected, depth |-> depth,
                         shown |-> messages' - messages,
                         started |-> Len(threads') > Len(threads),
                         max_depth |-> IF Len(threads') > Len(threads)
                                       THEN threads'[Len(threads')].max_depth ELSE None]

\* select_folder: lines 344-348, the dialog returns folder_selected
select_folder(folder_selected) ==
    /\ events < MaxEvents
    /\ events' = events + 1
    /\ UNCHANGED <<depth_spinbox, last_insert>>
    /\ IF folder_selected # <<>>
       THEN /\ folder_path_var' = folder_selected
            /\ update_preview
       ELSE UNCHANGED <<folder_path_var, preview_text, progress_bar, threads,
                        messages, last_call>>
    /\ UNCHANGED wvars

\* the user edits the depth field: the <KeyRelease> binding, line 266
depth_key_release(text) ==
    /\ events < MaxEvents
    /\ events' = events + 1
    /\ depth_spinbox' = text
    /\ UNCHANGED <<folder_path_var, last_insert>>
    /\ update_preview
    /\ UNCHANGED wvars

\* generate_tree_thread: lines 399-412, one statement of thread t
generate_tree_thread(t) ==
    /\ t \in 1..Len(threads)
    /\ LET pc == threads[t].pc
           goto(l) == threads' = [threads EXCEPT ![t].pc = l]
       IN  \/ /\ pc = "generate_tree"
              /\ threads' = [threads EXCEPT ![t].pc = "configure_normal",
                                            ![t].tree_str = TreeOf(t)]
              /\ UNCHANGED <<preview_text, progress_bar, last_insert>>
           \/ /\ pc = "configure_normal"
              /\ preview_text' = [preview_text EXCEPT !.state = "normal"]
              /\ goto("delete")
              /\ UNCHANGED <<progress_bar, last_insert>>
           \/ /\ pc = "delete"
              /\ preview_text' = text_delete(preview_text)
              /\ goto("insert")
              /\ UNCHANGED <<progress_bar, last_insert>>
           \/ /\ pc = "insert"
              /\ preview_text' = text_insert(preview_text, threads[t].tree_str)
              /\ last_insert' = t
              /\ goto("configure_disabled")
              /\ UNCHANGED progress_bar
           \/ /\ pc = "configure_disabled"
              /\ preview_text' = [preview_text EXCEPT !.state = "disabled"]
              /\ goto("stop")
              /\ UNCHANGED <<progress_bar, last_insert>>
           \/ /\ pc = "stop"
              /\ progress_bar' = [progress_bar EXCEPT !.running = FALSE]
              /\ goto("pack_forget")
              /\ UNCHANGED <<preview_text, last_insert>>
           \/ /\ pc = "pack_forget"
              /\ progress_bar' = [progress_bar EXCEPT !.packed = FALSE]
              /\ goto("finished")
              /\ UNCHANGED <<preview_text, last_insert>>
    /\ UNCHANGED <<folder_path_var, depth_spinbox, messages, last_call, events>>
    /\ UNCHANGED wvars

InitGui ==
    /\ folder_path_var = <<>>
    /\ depth_spinbox = <<>>
    /\ preview_text = [state |-> "disabled", content |-> <<>>]
    /\ progress_bar = [packed |-> FALSE, running |-> FALSE]
    /\ threads = <<>>
    /\ messages = 0
    /\ last_call = NoCall
    /\ last_insert = 0
    /\ events = 0

NextGui ==
    \/ \E f \in Folders : select_folder(f)
    \/ \E text \in DepthTexts : depth_key_release(text)
    \/ \E t \in 1..MaxThreads : generate_tree_thread(t)

NoConfig ==
    [exclusions |-> {}, include_hidden |-> FALSE, max_depth |-> None,
     show_metadata |-> FALSE, symbols |-> "Classic"]

Init ==
    /\ listing = [d \in Dirs |-> Unknown]
    /\ kinds = [p \in Dirs \X Names |-> UnknownKind]
    /\ ndirs = 1
    /\ cfg = NoConfig
    /\ tree_lines = <<>>
    /\ visited = {}
    /\ stack = <<>>
    /\ phase = "idle"
    /\ result = <<>>
    /\ meta = <<>>
    /\ listed = <<>>
    /\ prev = NoPrev
    /\ json = NoJson
    /\ html = <<>>
    /\ InitGui

Next ==
    \/ \E c \in Configs : generate_tree(c)
    \/ walk_dir_enter(MaxNodes)
    \/ walk_dir_item
    \/ walk_dir_return
    \/ generate_tree_return

Spec == Init /\ [][Next]_vars

\* an unlimited walk, then a walk of the same filesystem with a depth limit
NextDepth ==
    \/ generate_tree(DefaultConfig)
    \/ \E d \in 1..MaxDepthArg : generate_tree_again(d)
    \/ walk_dir_enter(MaxNodesTwice)
    \/ walk_dir_item
    \/ walk_dir_return
    \/ generate_tree_return

SpecDepth == Init /\ [][NextDepth]_vars

\* a walk without depth limit, hidden entries dropped or included
NextUnlimited ==
    \/ \E h \in BOOLEAN : generate_tree([DefaultConfig EXCEPT !.include_hidden = h])
    \/ walk_dir_enter(MaxNodes)
    \/ walk_dir_item
    \/ walk_dir_return
    \/ generate_tree_return

\* generate_tree has been called and has not returned
Walking == phase = "walking"

\* generate_tree runs on one thread that keeps executing, and every os.listdir
\* and os.path call on the finite filesystem returns: while the call has not
\* returned, a step of it is possible (its next statement) and is eventually
\* taken. This is weak fairness of the walk's steps, with Walking for the
\* states where a step is possible.
SpecUnlimited ==
    /\ Init /\ [][NextUnlimited]_vars
    /\ ([]<>~Walking \/ []<><<NextUnlimited>>_vars)

\* a walk with one of the symbol sets, then the exports of its result
NextRender ==
    \/ \E y \in SymbolNames : generate_tree([DefaultConfig EXCEPT !.symbols = y])
    \/ walk_dir_enter(MaxNodes)
    \/ walk_dir_item
    \/ walk_dir_return
    \/ generate_tree_return
    \/ export_json
    \/ export_html

SpecRender == Init /\ [][NextRender]_vars

\* the preview window: user events and the walk threads they start
SpecGui == Init /\ [][NextGui]_vars

\* ------------------------------------------------------------ properties
Done == phase = "done"

IsEntry(m) == m.k \in {"file", "dir", "link"}
IsMarker(m) == m.k \in {"dots", "denied", "error", "circular"}

\* the history records of the entry lines of directory p, in output order
EntriesUnder(p) ==
    LET under(m) == IsEntry(m) /\ m.path = p
    IN  SelectSeq(meta, under)

\* the text of a line from column c + 1 on
From(line, c) == SubSeq(line, c + 1, Len(line))

\* the names of a directory listing that the configuration keeps
Kept(names) ==
    {n \in names : (cfg.include_hidden \/ n[1] # ".") /\ n \notin cfg.exclusions}

\* C1: under every directory that generate_tree lists, the entry lines are,
\* one line per entry, exactly the listed names that are not hidden (unless
\* include_hidden) and not excluded, in case-insensitive name order; every
\* entry line shows its entry's name and belongs to a listed directory.
C1_EntryLinesExact ==
    Done =>
      /\ \A l \in 1..Len(listed) :
            LET E == EntriesUnder(listed[l].path)
                K == Kept(listed[l].names)
            IN  /\ Len(E) = Cardinality(K)
                /\ {E[j].name : j \in 1..Len(E)} = K
                /\ \A j \in 1..(Len(E) - 1) :
                      ~StrLess(Lower(E[j + 1].name), Lower(E[j].name))
      /\ \A i \in 1..Len(meta) :
            IsEntry(meta[i]) =>
              /\ StartsWith(From(tree_lines[i], 4 * meta[i].depth), meta[i].name)
              /\ \E l \in 1..Len(listed) : listed[l].path = meta[i].path

\* C1 witness: a listing a, node_modules, B with node_modules excluded gives
\* the two lines a and B, in that order
C1_Witness ==
    /\ Done
    /\ cfg.exclusions = {n_nm}
    /\ \E l \in 1..Len(listed) :
          /\ listed[l].names = {n_a, n_nm, n_B}
          /\ LET E == EntriesUnder(listed[l].path)
             IN  Len(E) = 2 /\ E[1].name = n_a /\ E[2].name = n_B

\* a walk with max_depth = d that follows the unlimited walk kept in prev
Limited == Done /\ prev # NoPrev

\* the entry lines of depth at most d, each with its history record
ShallowEntries(ms, ls, d) ==
    LET shallow(x) == IsEntry(x.m) /\ x.m.depth <= d
    IN  SelectSeq([i \in 1..Len(ms) |-> [m |-> ms[i], t |-> ls[i]]], shallow)

\* no entry deeper than max_depth has a line
C2_NothingBelowLimit ==
    \A i \in 1..Len(meta) : IsEntry(meta[i]) => meta[i].depth <= cfg.max_depth

\* a directory at depth max_depth is followed by its one "..." line (or by
\* its "[Circular Link]" line if it was visited before) and is never listed
C2_TruncatedAtLimit ==
    /\ \A i \in 1..Len(meta) :
          (meta[i].k = "dir" /\ meta[i].depth = cfg.max_depth) =>
            /\ i < Len(meta)
            /\ meta[i + 1].path = Append(meta[i].path, meta[i].name)
            /\ \/ meta[i + 1].k = "circular"
               \/ /\ meta[i + 1].k = "dots"
                  /\ From(tree_lines[i + 1], 4 * meta[i + 1].depth) = DOTS
            /\ (i + 2 <= Len(meta)) => ~(IsMarker(meta[i + 2])
                                         /\ meta[i + 2].path = meta[i + 1].path)
    /\ \A l \in 1..Len(listed) : Len(listed[l].path) < cfg.max_depth

\* the entries of depth at most max_depth have the lines of the unlimited walk
C2_ShallowAsUnlimited ==
    ShallowEntries(meta, tree_lines, cfg.max_depth)
      = ShallowEntries(prev.meta, prev.tree_lines, cfg.max_depth)

NoCircular(ms) == \A i \in 1..Len(ms) : ms[i].k # "circular"

\* C2 as claimed: with max_depth = d >= 1 no entry deeper than d has a line,
\* every directory at depth d gets one "..." line and is not listed, and all
\* entries of depth at most d are emitted as without a limit.
C2_Original ==
    Limited => C2_NothingBelowLimit /\ C2_TruncatedAtLimit /\ C2_ShallowAsUnlimited

\* C2 amended: as claimed, but the entries of depth at most d are emitted as
\* without a limit provided the unlimited walk meets no directory that it has
\* visited before (it emits no "[Circular Link]").
C2_DepthLimit ==
    Limited =>
      /\ C2_NothingBelowLimit
      /\ C2_TruncatedAtLimit
      /\ NoCircular(prev.meta) => C2_ShallowAsUnlimited

\* C2 witness: a tree of depth 3 without aliases walked with max_depth = 1:
\* its directories of depth 1 are truncated
C2_Witness ==
    /\ Limited
    /\ cfg.max_depth = 1
    /\ NoCircular(prev.meta)
    /\ \E i \in 1..Len(prev.meta) : IsEntry(prev.meta[i]) /\ prev.meta[i].depth = 3
    /\ \E i \in 1..Len(meta) : meta[i].k = "dots"

\* p is a prefix of q (paths)
IsPrefix(p, q) == Len(p) <= Len(q) /\ SubSeq(q, 1, Len(p)) = p

\* C3 as claimed: a directory whose canonical path was visited before in this
\* walk, the root directory included, is not listed again: no canonical
\* directory is listed twice in one walk.
C3_ListedAtMostOnce ==
    \A i, j \in 1..Len(listed) : i # j => listed[i].dir # listed[j].dir

\* the text a symlink's line has after its connector
LinkText(m) ==
    m.name \o ARROW \o (IF m.kind.readable THEN readlink(m.kind) ELSE INVALID_SYMLINK)

\* C4: a symlink has exactly one line, "<name> -> <target>" or "<name> ->
\* [Invalid Symlink]", without metadata, and nothing is ever listed or
\* emitted beneath it, whatever its target, max_depth and visited.
C4_SymlinkOneLine ==
    \A i \in 1..Len(meta) :
      (meta[i].kind.t = "link" /\ IsEntry(meta[i])) =>
        LET p == Append(meta[i].path, meta[i].name)
        IN  /\ From(tree_lines[i], 4 * meta[i].depth) = LinkText(meta[i])
            /\ \A j \in 1..Len(meta) :
                  /\ ~IsPrefix(p, meta[j].path)
                  /\ (IsEntry(meta[j]) /\ Append(meta[j].path, meta[j].name) = p) => j = i
            /\ \A l \in 1..Len(listed) : ~IsPrefix(p, listed[l].path)
            /\ \A f \in 1..Len(stack) : ~IsPrefix(p, stack[f].current_path)

\* C4 witness: with show_metadata on, a finished walk met a symlink to a
\* directory and a readable symlink to a plain file
C4_Witness ==
    /\ Done
    /\ cfg.show_metadata
    /\ \E i \in 1..Len(meta) : meta[i].kind.t = "link" /\ meta[i].kind.id >= 0
    /\ \E i \in 1..Len(meta) :
          meta[i].kind.t = "link" /\ meta[i].kind.id < 0 /\ meta[i].kind.readable

IsFailure(m) == m.k \in {"denied", "error"}

TrueParent(i) ==
    IF meta[i].path = <<>> THEN 1
    ELSE CHOOSE j \in 1..Len(meta) :
           IsEntry(meta[j]) /\ Append(meta[j].path, meta[j].name) = meta[i].path

\* C6 as claimed: tree_to_json of a Classic tree has one node per line, and
\* the node of every line is a child of the node of the directory the line
\* belongs to (markers: the directory they were emitted for).
C6_JsonRoundTrip ==
    (json # NoJson /\ cfg.symbols = "Classic") =>
      /\ Len(json.name) = Len(tree_lines)
      /\ \A i \in 2..Len(tree_lines) : json.parent[i] = TrueParent(i)

\* the tags of a markup text close in order and none stays open
RECURSIVE TagsBalanced(_, _)
TagsBalanced(markup, open) ==
    IF markup = <<>> THEN open = <<>>
    ELSE LET t == Head(markup)
         IN  IF t \in {UL, LI} THEN TagsBalanced(Tail(markup), Append(open, t))
             ELSE IF t \in {END_UL, END_LI}
             THEN /\ open # <<>>
                  /\ open[Len(open)] = (IF t = END_UL THEN UL ELSE LI)
                  /\ TagsBalanced(Tail(markup), SubSeq(open, 1, Len(open) - 1))
             ELSE TagsBalanced(Tail(markup), open)

Count(markup, t) == Cardinality({i \in 1..Len(markup) : markup[i] = t})

\* C7 as claimed: the markup of tree_to_html has balanced list tags, as many
\* <ul> as </ul> and <li> as </li>, and the depth stack ends with length 1.
C7_HtmlBalanced ==
    html # <<>> =>
      /\ TagsBalanced(html, <<>>)
      /\ Count(html, UL) = Count(html, END_UL)
      /\ Count(html, LI) = Count(html, END_LI)
      /\ Len(html_run(result).stack) = 1

\* entry line i is the last entry line of its directory
Final(i) ==
    ~\E j \in (i + 1)..Len(meta) : IsEntry(meta[j]) /\ meta[j].path = meta[i].path

\* the entry line of the directory with path p
EntryOf(p) ==
    CHOOSE j \in 1..Len(meta) : IsEntry(meta[j]) /\ Append(meta[j].path, meta[j].name) = p

\* the four characters of a line at prefix level q
Level(line, q) == SubSeq(line, 4 * q - 3, 4 * q)

\* the connector of every entry line is last for the final entry of its
\* directory and branch for the others
C8_Connectors ==
    \A i \in 1..Len(meta) :
      IsEntry(meta[i]) =>
        Level(tree_lines[i], meta[i].depth)
          = (IF Final(i) THEN symbols.last ELSE symbols.branch)

\* line j carries, at the level of every directory entry above it, four
\* blanks if that entry is final and the indent string if it is not
C8_Continuation(j) ==
    \A q \in 1..Len(meta[j].path) :
      Level(tree_lines[j], q)
        = (IF Final(EntryOf(SubSeq(meta[j].path, 1, q))) THEN BLANKS ELSE symbols.indent)

\* C8 as claimed: an entry line has the last connector iff the entry is the
\* final one of its directory's filtered, sorted list, and every line beneath
\* an entry, markers included, carries at that entry's level four blanks if
\* the entry is last and the indent string if not.
C8_PrefixShape ==
    Done => C8_Connectors /\ \A j \in 2..Len(meta) : C8_Continuation(j)

\* a depth text that is no decimal number
NotANumber(depth) ==
    ~(depth # <<>> /\ \A i \in 1..Len(depth) : \E v \in 1..10 : DIGITS[v] = depth[i])

\* C9 as claimed: an update_preview call with no root folder selected or with
\* a depth field that is not a number shows exactly one message and starts
\* no walk thread.
C9_Original ==
    (last_call.called /\ (last_call.folder = <<>> \/ NotANumber(last_call.depth))) =>
      last_call.shown = 1 /\ ~last_call.started

\* C9 amended: with no root folder selected update_preview returns without a
\* message and without a walk thread; with a folder and a depth field that
\* is not all digits it shows no message and starts the walk with max_depth
\* unset; only a depth that isdigit() accepts and int() rejects is caught:
\* exactly one message and no walk thread.
C9_ConfigErrors ==
    last_call.called =>
      /\ last_call.folder = <<>> => (last_call.shown = 0 /\ ~last_call.started)
      /\ (last_call.folder # <<>> /\ NotANumber(last_call.depth)) =>
            IF \E i \in 1..Len(last_call.depth) : last_call.depth[i] = SUP2
            THEN last_call.shown = 1 /\ ~last_call.started
            ELSE /\ last_call.shown = 0 /\ last_call.started
                 /\ last_call.max_depth = None
                 /\ threads[Len(threads)].folder = last_call.folder

\* C9 witness: with a folder selected and the depth field "x", update_preview
\* started a walk thread and an earlier call without a folder did nothing
C9_Witness ==
    /\ last_call.called /\ last_call.folder # <<>> /\ last_call.depth = <<"x">>
    /\ last_call.started /\ messages = 0
    /\ events = 2

AllFinished == \A t \in 1..Len(threads) : threads[t].pc = "finished"

\* C10 as claimed: when a second walk was started while the first was in
\* flight and both have finished, the preview holds exactly the complete
\* output of the walk whose write came last, never a mixture or both.
C10_LastWriterWins ==
    (Len(threads) = 2 /\ AllFinished) =>
      preview_text.content = <<threads[last_insert].tree_str>>


\* the entry lines of a Classic or Simple tree get their nesting depth (1 for
\* the root's children) from (stripped characters) // 4
C11_DepthOfEntries ==
    \A i \in 2..Len(tree_lines) :
      IsEntry(meta[i]) => inferred_depth(tree_lines[i]) = meta[i].depth

\* the node of every entry line is in the JSON tree, under the node of the
\* directory that holds the entry
C11_NoneDroppedOrMisplaced ==
    json # NoJson =>
      \A i \in 2..Len(tree_lines) :
        IsEntry(meta[i]) => json.parent[i] = TrueParent(i)

\* C11 as claimed: for a tree written with the Classic or the Simple symbol
\* set, the depth that tree_to_json and tree_to_html infer for every entry
\* line equals the nesting depth of its entry, so that no entry's node is
\* dropped from the JSON tree or attached to the wrong parent.
C11_InferredDepth ==
    (Done /\ cfg.symbols \in {"Classic", "Simple"}) =>
      /\ C11_DepthOfEntries
      /\ C11_NoneDroppedOrMisplaced

\* the os.listdir calls of the walk so far: the successful ones and the ones
\* that raised, each of which left one marker line
Listings ==
    Len(listed) + Cardinality({i \in 1..Len(meta) : meta[i].k \in {"denied", "error"}})

\* a walk without depth limit is running or has returned
Unlimited == phase \in {"walking", "done"} /\ cfg.max_depth = None

\* a visited directory that has the canonical path of the directory it was
\* reached through, or of one further up: line i is its "[Circular Link]"
CycleAt(i) ==
    /\ meta[i].k = "circular"
    /\ \E l \in 1..Len(listed) :
          /\ listed[l].dir = meta[i].kind.id
          /\ IsPrefix(listed[l].path, meta[i].path)
          /\ listed[l].path # meta[i].path

\* C12: with max_depth unset, on every finite filesystem, cycles of
\* directories that are not symlinks included, generate_tree never performs
\* more directory listings than there are distinct canonical directories plus
\* one, and it eventually returns.
C12_Returns ==
    /\ [](Unlimited => Listings <= ndirs + 1)
    /\ ((Walking /\ cfg.max_depth = None) ~> Done)

\* C12 witness: an unlimited walk has returned from a filesystem where a
\* directory has the canonical path of one of its ancestors, after as many
\* listings as the bound allows
C12_Witness ==
    /\ Done /\ cfg.max_depth = None
    /\ \E i \in 1..Len(meta) : CycleAt(i)
    /\ Listings = ndirs + 1


====
